---- MODULE Spec2Model ----
(***************************************************************************)
(* go-dep-visual: main.go clones a repository, reads the module name from  *)
(* go.mod, walks the .go files collecting each package's imports into      *)
(* dependancyGraph, sorts and compacts every dependency list, and renders  *)
(* the graph with graphviz.                                                *)
(*                                                                         *)
(* Strings are modelled as sequences of tokens.  A path or import path is  *)
(* the sequence of its "/"-separated segments ("root/sub" is               *)
(* <<"root", "sub">>), the empty string is <<>>.  A quoted string carries  *)
(* one extra token "\"" on each side.  A URL is the sequence of its        *)
(* tokens with every "/" a token of its own.                               *)
(***************************************************************************)
EXTENDS Integers, Sequences, FiniteSets, Bags, TLC

VARIABLES
    pc,               \* position of main()
    arg,              \* os.Args[1], or NoArg when len(os.Args) < 2
    url,              \* the ssh url returned by convertHTTPtoSSH
    compactClears,    \* TRUE when the toolchain's slices.Compact zeroes the tail (go >= 1.22)
    moduleName,       \* var moduleName string (line 73)
    walked,           \* entries the walk in progress has handed to its callback so far
    dependancyGraph,  \* map[string][]string (line 107)
    seen,             \* map[string]bool of the renderer (line 156), as the set of true keys
    nodes,            \* nodes held by the gographviz graph
    edges,            \* bag of <<src, dst>> edges held by the gographviz graph
    keyOpened,        \* ~/.ssh/id_rsa has been opened
    cloneCalled,      \* git.Clone has been called
    wroteDot,         \* graph.dot has been written
    ranDotPdf,        \* dot -Tpdf has been invoked
    diag,             \* the diagnostic of the log.Fatal / panic that ended the run
    orderA,           \* (order study) the files in a first visiting order
    orderB,           \* (order study) the same files in a second visiting order
    graphB            \* (order study) the graph built over orderB

vars == <<pc, arg, url, compactClears, moduleName, walked, dependancyGraph, seen,
          nodes, edges, keyOpened, cloneCalled, wroteDot, ranDotPdf, diag,
          orderA, orderB, graphB>>

-----------------------------------------------------------------------------
(* Bounds of the model *)

\* most go.mod paths one walk visits
MaxMods == 2
\* most .go files one walk visits
MaxFiles == 2
\* most import specs in one file
MaxImports == 2
\* most import specs in one file of the order study
MaxOrderImports == 1

-----------------------------------------------------------------------------
(* The input alphabet *)

NoArg == <<"<no argument>">>

HttpsPrefix == <<"https:", "/", "/">>

Args ==
    { <<"https:", "/", "/", "github.com", "/", "u", "/", "r">>,
      <<"http:", "/", "/", "github.com", "/", "u", "/", "r">>,
      <<"git@", "github.com", ":", "u", "/", "r">>,
      <<"github.com", "/", "https:", "/", "/", "u">>,
      <<>> }

\* module paths a go.mod may declare
ModulePaths == { <<"root">>, <<"other">> }

\* what a file whose path ends in go.mod holds: a module directive, no module
\* directive at all, or text modfile.Parse rejects
GoModFiles ==
    [kind : {"module"}, module : ModulePaths]
        \cup { [kind |-> "nomodule", module |-> <<>>],
               [kind |-> "malformed", module |-> <<>>] }

\* directories of the work tree, relative to its root
Dirs == { <<>>, <<"sub">> }

\* the i-th .go file visited is named by its position, so paths are distinct
FileName(i) == IF i = 1 THEN "main.go" ELSE IF i = 2 THEN "a.go" ELSE IF i = 3 THEN "b.go" ELSE "c.go"

ImportPaths == { <<"fmt">>, <<"root">> }

\* %q / an import spec's literal: the string between double quotes
Quote(s) == <<"\"">> \o s \o <<"\"">>

\* the values of importSpec.Path.Value of one file
ImportLits == UNION { [1..n -> { Quote(p) : p \in ImportPaths }] : n \in 0..MaxImports }

\* a .go file the walk can meet as its i-th one
GoFiles(i) ==
    { [path |-> d \o <<FileName(i)>>, parses |-> TRUE, imports |-> l] :
          d \in Dirs, l \in ImportLits }
        \cup { [path |-> d \o <<FileName(i)>>, parses |-> FALSE, imports |-> <<>>] : d \in Dirs }

-----------------------------------------------------------------------------
(* strings *)

HasPrefix(s, prefix) ==
    Len(s) >= Len(prefix) /\ SubSeq(s, 1, Len(prefix)) = prefix

\* index of the first occurrence of old in s at or after i, 0 when there is none
RECURSIVE IndexFrom(_, _, _)
IndexFrom(s, old, i) ==
    IF i + Len(old) - 1 > Len(s) THEN 0
    ELSE IF SubSeq(s, i, i + Len(old) - 1) = old THEN i
    ELSE IndexFrom(s, old, i + 1)

\* strings.Replace(s, old, new, 1)
ReplaceFirst(s, old, new) ==
    LET i == IndexFrom(s, old, 1) IN
    IF i = 0 THEN s
    ELSE SubSeq(s, 1, i - 1) \o new \o SubSeq(s, i + Len(old), Len(s))

\* convertHTTPtoSSH without the test of line 191
convertHTTPtoSSHUnchecked(httpURL) ==
    [err |-> FALSE,
     url |-> ReplaceFirst(ReplaceFirst(httpURL, HttpsPrefix, <<"git@">>), <<"/">>, <<":">>)]

convertHTTPtoSSH(httpURL) ==
    IF ~HasPrefix(httpURL, HttpsPrefix)
    THEN [err |-> TRUE, url |-> <<>>]
    ELSE [err |-> FALSE,
          url |-> ReplaceFirst(ReplaceFirst(httpURL, HttpsPrefix, <<"git@">>), <<"/">>, <<":">>)]

\* filepath.Dir of a slash-separated relative path
Dir(path) == IF Len(path) <= 1 THEN <<".">> ELSE SubSeq(path, 1, Len(path) - 1)

\* filepath.Clean: "." segments dropped, "." when nothing is left
Clean(path) ==
    LET kept == SelectSeq(path, LAMBDA seg : seg # ".") IN
    IF kept = <<>> THEN <<".">> ELSE kept

\* filepath.Join(a, b): empty elements are ignored, the rest is cleaned
Join(a, b) == IF a = <<>> /\ b = <<>> THEN <<>> ELSE Clean(a \o b)

\* getPackageName without filepath.Dir
getPackageNameOfFile(modulePath, relativeFilePath) == Join(modulePath, relativeFilePath)

getPackageName(modulePath, relativeFilePath) == Join(modulePath, Dir(relativeFilePath))

\* byte order of the segments in use ("." < "f" < "o" < "r" < "s")
SegRank(seg) ==
    CASE seg = "." -> 1
      [] seg = "fmt" -> 2
      [] seg = "other" -> 3
      [] seg = "root" -> 4
      [] seg = "sub" -> 5
      [] OTHER -> 6

\* a < b on strings; "/" sorts below every letter, so the comparison by
\* segments agrees with the comparison by bytes
RECURSIVE StrLess(_, _)
StrLess(a, b) ==
    IF a = <<>> THEN b # <<>>
    ELSE IF b = <<>> THEN FALSE
    ELSE IF Head(a) = Head(b) THEN StrLess(Tail(a), Tail(b))
    ELSE SegRank(Head(a)) < SegRank(Head(b))

\* x put into the sorted sequence s
RECURSIVE InsertSorted(_, _)
InsertSorted(x, s) ==
    IF s = <<>> THEN <<x>>
    ELSE IF StrLess(Head(s), x) THEN <<Head(s)>> \o InsertSorted(x, Tail(s))
    ELSE <<x>> \o s

\* the array left as it is
Unsorted(s) == s

\* slices.Sort: the backing array, sorted in place
RECURSIVE Sort(_)
Sort(s) == IF s = <<>> THEN <<>> ELSE InsertSorted(Head(s), Sort(Tail(s)))

\* the loop of slices.Compact over the backing array s (1-based i and k)
RECURSIVE CompactLoop(_, _, _)
CompactLoop(s, i, k) ==
    IF k > Len(s) THEN [array |-> s, len |-> i - 1]
    ELSE IF s[k] # s[k - 1]
         THEN CompactLoop(IF i # k THEN [s EXCEPT ![i] = s[k]] ELSE s, i + 1, k + 1)
         ELSE CompactLoop(s, i, k + 1)

\* slices.Compact(s): the backing array it leaves and the length of the slice
\* it returns.  The elements past the returned length keep their values up to
\* go 1.21 and are zeroed from go 1.22 on.
Compact(s, clears) ==
    IF Len(s) < 2 THEN [array |-> s, len |-> Len(s)]
    ELSE LET r == CompactLoop(s, 2, 2) IN
         [array |-> [j \in 1..Len(s) |->
                        IF j > r.len /\ clears THEN <<>> ELSE r.array[j]],
          len |-> r.len]

\* lines 148-151 for one map value: deps shares its backing array with the
\* map's slice; the slice slices.Compact returns is dropped, so the map keeps
\* the array at its old length
SortCompact(deps, clears) == Compact(Sort(deps), clears).array

-----------------------------------------------------------------------------
(* the dependency graph *)

EmptyGraph == [k \in {} |-> <<>>]

\* lines 123-125 and 134-136: the key is added with an empty list when absent
EnsureKey(g, k) == IF k \in DOMAIN g THEN g ELSE [x \in DOMAIN g \cup {k} |-> IF x = k THEN <<>> ELSE g[x]]

\* line 133: the literal without its first and last character
Unquote(lit) == SubSeq(lit, 2, Len(lit) - 1)

\* lines 132-138: the import specs of one file, in order
RECURSIVE InsertImports(_, _, _)
InsertImports(g, name, lits) ==
    IF lits = <<>> THEN g
    ELSE LET dependancy == Unquote(Head(lits))
             g1 == EnsureKey(g, dependancy)
         IN InsertImports([g1 EXCEPT ![name] = Append(g1[name], dependancy)], name, Tail(lits))

\* lines 121-138 for one file that parses
InsertFile(g, module, file) ==
    LET name == getPackageName(module, file.path)
    IN InsertImports(EnsureKey(g, name), name, file.imports)

\* lines 148-151: every value of the map
SortCompactGraph(g, clears) == [k \in DOMAIN g |-> SortCompact(g[k], clears)]

-----------------------------------------------------------------------------
(* the renderer *)

EmptyRender == [seen |-> {}, nodes |-> {}, edges |-> EmptyBag]

\* graph.AddNode under the seen test (lines 159-164, 167-172); gographviz keeps
\* one node per name
AddNodeOnce(r, name) ==
    IF name \in r.seen THEN r
    ELSE [r EXCEPT !.seen = @ \cup {name}, !.nodes = @ \cup {Quote(name)}]

\* the edge from the dependent to the dependency
EdgeReversed(dependancy, module) == <<Quote(module), Quote(dependancy)>>

\* the source and destination line 174 hands to graph.AddEdge
Edge(dependancy, module) == <<Quote(dependancy), Quote(module)>>

\* lines 166-177: gographviz appends every edge it is given
RECURSIVE RenderDependancies(_, _, _)
RenderDependancies(r, module, dependancies) ==
    IF dependancies = <<>> THEN r
    ELSE LET r1 == AddNodeOnce(r, Head(dependancies))
         IN RenderDependancies(
                [r1 EXCEPT !.edges = @ (+) SetToBag({Edge(Head(dependancies), module)})],
                module, Tail(dependancies))

\* lines 158-178: the keys in some order of the map; the node set and the edge
\* bag do not depend on it
RECURSIVE RenderGraph(_, _, _)
RenderGraph(r, g, keys) ==
    IF keys = {} THEN r
    ELSE LET module == CHOOSE k \in keys : TRUE
         IN RenderGraph(RenderDependancies(AddNodeOnce(r, module), module, g[module]),
                        g, keys \ {module})

-----------------------------------------------------------------------------
(* main() *)

Init ==
    /\ pc = "start"
    /\ arg \in Args \cup {NoArg}
    /\ compactClears \in BOOLEAN
    /\ url = <<>>
    /\ moduleName = <<>>
    /\ walked = <<>>
    /\ dependancyGraph = EmptyGraph
    /\ seen = {}
    /\ nodes = {}
    /\ edges = EmptyBag
    /\ keyOpened = FALSE
    /\ cloneCalled = FALSE
    /\ wroteDot = FALSE
    /\ ranDotPdf = FALSE
    /\ diag = ""
    /\ orderA = <<>>
    /\ orderB = <<>>
    /\ graphB = EmptyGraph

inputVars == <<arg, compactClears, orderA, orderB, graphB>>
fetchVars == <<url, keyOpened, cloneCalled>>
buildVars == <<moduleName, walked, dependancyGraph>>
renderVars == <<seen, nodes, edges, wroteDot, ranDotPdf>>

\* log.Fatal / log.Fatalf: the message, then os.Exit(1)
Fatal(msg) == pc' = "fatal" /\ diag' = msg

\* panic(err), or a nil dereference
Panic(msg) == pc' = "panic" /\ diag' = msg

Goto(next) == pc' = next /\ diag' = diag

\* lines 28-31
CheckDot ==
    /\ pc = "start"
    /\ \E installed \in BOOLEAN :
          IF installed THEN Goto("args") ELSE Fatal("Graphviz is not installed")
    /\ UNCHANGED <<inputVars, fetchVars, buildVars, renderVars>>

\* lines 33-35
CheckArgs ==
    /\ pc = "args"
    /\ IF arg = NoArg THEN Fatal("Please provide a directory path") ELSE Goto("convert")
    /\ UNCHANGED <<inputVars, fetchVars, buildVars, renderVars>>

\* lines 37-40
ConvertURL ==
    /\ pc = "convert"
    /\ LET r == convertHTTPtoSSH(arg) IN
          IF r.err
          THEN Fatal("Please provide valid https:// link to your github profile") /\ url' = url
          ELSE Goto("openkey") /\ url' = r.url
    /\ UNCHANGED <<inputVars, keyOpened, cloneCalled, buildVars, renderVars>>

\* lines 42-45
OpenKey ==
    /\ pc = "openkey"
    /\ keyOpened' = TRUE
    /\ \E opened \in BOOLEAN :
          IF opened THEN Goto("readkey") ELSE Fatal("open id_rsa")
    /\ UNCHANGED <<inputVars, url, cloneCalled, buildVars, renderVars>>

\* lines 47-50
ReadKey ==
    /\ pc = "readkey"
    /\ \E read \in BOOLEAN :
          IF read THEN Goto("auth") ELSE Fatal("read id_rsa")
    /\ UNCHANGED <<inputVars, fetchVars, buildVars, renderVars>>

\* lines 53-56
NewPublicKeys ==
    /\ pc = "auth"
    /\ \E valid \in BOOLEAN :
          IF valid THEN Goto("clone") ELSE Fatal("ssh.NewPublicKeys")
    /\ UNCHANGED <<inputVars, fetchVars, buildVars, renderVars>>

\* lines 58-66
Clone ==
    /\ pc = "clone"
    /\ cloneCalled' = TRUE
    /\ \E cloned \in BOOLEAN :
          IF cloned THEN Goto("worktree") ELSE Fatal("Error cloning repository")
    /\ UNCHANGED <<inputVars, url, keyOpened, buildVars, renderVars>>

\* lines 68-71
Worktree ==
    /\ pc = "worktree"
    /\ \E got \in BOOLEAN :
          IF got THEN Goto("walkmod") ELSE Fatal("repo.Worktree")
    /\ UNCHANGED <<inputVars, fetchVars, buildVars, renderVars>>

\* line 76 of the first walk: the walk hands the callback an error, or a read
\* of the file fails (lines 80-89); util.Walk returns it and line 104 ends the run
WalkModError ==
    /\ pc = "walkmod"
    /\ Len(walked) < MaxMods
    /\ Fatal("failed to search the git work tree for the go.mod file")
    /\ UNCHANGED <<inputVars, fetchVars, buildVars, renderVars>>

\* lines 91-94: modfile.Parse rejects the file
WalkModMalformed ==
    /\ pc = "walkmod"
    /\ Len(walked) < MaxMods
    /\ \E f \in GoModFiles :
          /\ f.kind = "malformed"
          /\ walked' = Append(walked, f)
    /\ Fatal("failed to parse go.mod file")
    /\ UNCHANGED <<inputVars, fetchVars, moduleName, dependancyGraph, renderVars>>

\* line 96 on a go.mod without a module directive: modFile.Module is nil
WalkModNoModule ==
    /\ pc = "walkmod"
    /\ Len(walked) < MaxMods
    /\ \E f \in GoModFiles :
          /\ f.kind = "nomodule"
          /\ walked' = Append(walked, f)
    /\ Panic("nil pointer dereference")
    /\ UNCHANGED <<inputVars, fetchVars, moduleName, dependancyGraph, renderVars>>

\* lines 79-97 had line 96 been guarded by moduleName == ""
WalkModAssignIfUnset ==
    /\ pc = "walkmod"
    /\ Len(walked) < MaxMods
    /\ \E f \in GoModFiles :
          /\ f.kind = "module"
          /\ moduleName' = IF moduleName = <<>> THEN f.module ELSE moduleName
          /\ walked' = Append(walked, f)
    /\ Goto("walkmod")
    /\ UNCHANGED <<inputVars, fetchVars, dependancyGraph, renderVars>>

\* lines 79-97: a path ending in go.mod that parses
WalkModAssign ==
    /\ pc = "walkmod"
    /\ Len(walked) < MaxMods
    /\ \E f \in GoModFiles :
          /\ f.kind = "module"
          /\ moduleName' = f.module
          /\ walked' = Append(walked, f)
    /\ Goto("walkmod")
    /\ UNCHANGED <<inputVars, fetchVars, dependancyGraph, renderVars>>

\* lines 101-107: the first walk returns nil; the second walk starts afresh
WalkModDone ==
    /\ pc = "walkmod"
    /\ walked' = <<>>
    /\ dependancyGraph' = EmptyGraph
    /\ Goto("walksrc")
    /\ UNCHANGED <<inputVars, fetchVars, moduleName, renderVars>>

\* line 110 of the second walk, or a failed Open (lines 115-118); line 145
WalkSrcError ==
    /\ pc = "walksrc"
    /\ Len(walked) < MaxFiles
    /\ Fatal("failed to walk directory provided")
    /\ UNCHANGED <<inputVars, fetchVars, buildVars, renderVars>>

\* lines 114-130 had the parse error been logged and the file skipped
WalkSrcParseErrorSkipped ==
    /\ pc = "walksrc"
    /\ Len(walked) < MaxFiles
    /\ \E f \in GoFiles(Len(walked) + 1) :
          /\ ~f.parses
          /\ walked' = Append(walked, f)
          /\ dependancyGraph' = EnsureKey(dependancyGraph, getPackageName(moduleName, f.path))
    /\ Goto("walksrc")
    /\ UNCHANGED <<inputVars, fetchVars, moduleName, renderVars>>

\* lines 114-130 on a file parser.ParseFile rejects: its package is already a
\* key (lines 123-125) when log.Fatalf ends the run
WalkSrcParseError ==
    /\ pc = "walksrc"
    /\ Len(walked) < MaxFiles
    /\ \E f \in GoFiles(Len(walked) + 1) :
          /\ ~f.parses
          /\ walked' = Append(walked, f)
          /\ dependancyGraph' = EnsureKey(dependancyGraph, getPackageName(moduleName, f.path))
    /\ Fatal("Failed to parse file")
    /\ UNCHANGED <<inputVars, fetchVars, moduleName, renderVars>>

\* lines 114-141 on a file that parses
WalkSrcInsert ==
    /\ pc = "walksrc"
    /\ Len(walked) < MaxFiles
    /\ \E f \in GoFiles(Len(walked) + 1) :
          /\ f.parses
          /\ walked' = Append(walked, f)
          /\ dependancyGraph' = InsertFile(dependancyGraph, moduleName, f)
    /\ Goto("walksrc")
    /\ UNCHANGED <<inputVars, fetchVars, moduleName, renderVars>>

\* lines 142-146: the second walk returns nil
WalkSrcDone ==
    /\ pc = "walksrc"
    /\ Goto("compact")
    /\ UNCHANGED <<inputVars, fetchVars, buildVars, renderVars>>

\* lines 148-151
SortAndCompact ==
    /\ pc = "compact"
    /\ dependancyGraph' = SortCompactGraph(dependancyGraph, compactClears)
    /\ Goto("render")
    /\ UNCHANGED <<inputVars, fetchVars, moduleName, walked, renderVars>>

\* lines 153-178
Render ==
    /\ pc = "render"
    /\ LET r == RenderGraph(EmptyRender, dependancyGraph, DOMAIN dependancyGraph) IN
          /\ seen' = r.seen
          /\ nodes' = r.nodes
          /\ edges' = r.edges
    /\ Goto("write")
    /\ UNCHANGED <<inputVars, fetchVars, buildVars, wroteDot, ranDotPdf>>

\* lines 180-182
WriteDot ==
    /\ pc = "write"
    /\ \E written \in BOOLEAN :
          IF written
          THEN Goto("dot") /\ wroteDot' = TRUE
          ELSE Fatal("could not write graph.dot file") /\ wroteDot' = wroteDot
    /\ UNCHANGED <<inputVars, fetchVars, buildVars, seen, nodes, edges, ranDotPdf>>

\* lines 184-187
RunDot ==
    /\ pc = "dot"
    /\ ranDotPdf' = TRUE
    /\ \E ran \in BOOLEAN :
          IF ran THEN Goto("done") ELSE Panic("dot -Tpdf")
    /\ UNCHANGED <<inputVars, fetchVars, buildVars, seen, nodes, edges, wroteDot>>

Next ==
    \/ CheckDot
    \/ CheckArgs
    \/ ConvertURL
    \/ OpenKey
    \/ ReadKey
    \/ NewPublicKeys
    \/ Clone
    \/ Worktree
    \/ WalkModError
    \/ WalkModMalformed
    \/ WalkModNoModule
    \/ WalkModAssign
    \/ WalkModDone
    \/ WalkSrcError
    \/ WalkSrcParseError
    \/ WalkSrcInsert
    \/ WalkSrcDone
    \/ SortAndCompact
    \/ Render
    \/ WriteDot
    \/ RunDot

Spec == Init /\ [][Next]_vars

-----------------------------------------------------------------------------
(* Order study: the graph builder (lines 107-151) run over the same files *)
(* in two visiting orders, under one module root and one toolchain.       *)

OrderImportLits == UNION { [1..n -> { Quote(p) : p \in ImportPaths }] : n \in 0..MaxOrderImports }

\* the sequences of at most MaxFiles parseable files, the i-th named FileName(i)
OrderFiles ==
    UNION { { [i \in 1..n |-> [path |-> b[i][1] \o <<FileName(i)>>, parses |-> TRUE,
                               imports |-> b[i][2]]] :
                  b \in [1..n -> Dirs \X OrderImportLits] } : n \in 0..MaxFiles }

\* the orders in which n files can be visited
VisitOrders(n) == { p \in [1..n -> 1..n] : \A i, j \in 1..n : p[i] = p[j] => i = j }

InitOrder ==
    /\ pc = "buildA"
    /\ arg = NoArg
    /\ compactClears \in BOOLEAN
    /\ url = <<>>
    /\ moduleName \in { <<>>, <<"root">> }
    /\ walked = <<>>
    /\ dependancyGraph = EmptyGraph
    /\ seen = {}
    /\ nodes = {}
    /\ edges = EmptyBag
    /\ keyOpened = FALSE
    /\ cloneCalled = FALSE
    /\ wroteDot = FALSE
    /\ ranDotPdf = FALSE
    /\ diag = ""
    /\ orderA \in OrderFiles
    /\ \E p \in VisitOrders(Len(orderA)) : orderB = [i \in 1..Len(orderA) |-> orderA[p[i]]]
    /\ graphB = EmptyGraph

orderFixed == <<arg, compactClears, url, moduleName, seen, nodes, edges, keyOpened,
                cloneCalled, wroteDot, ranDotPdf, diag, orderA, orderB>>

\* lines 109-142 on the next file of the first order
BuildAInsert ==
    /\ pc = "buildA"
    /\ Len(walked) < Len(orderA)
    /\ walked' = Append(walked, orderA[Len(walked) + 1])
    /\ dependancyGraph' = InsertFile(dependancyGraph, moduleName, orderA[Len(walked) + 1])
    /\ UNCHANGED <<pc, graphB, orderFixed>>

\* lines 148-151 on the first graph
BuildAFinish ==
    /\ pc = "buildA"
    /\ Len(walked) = Len(orderA)
    /\ dependancyGraph' = SortCompactGraph(dependancyGraph, compactClears)
    /\ walked' = <<>>
    /\ pc' = "buildB"
    /\ UNCHANGED <<graphB, orderFixed>>

\* lines 109-142 on the next file of the second order
BuildBInsert ==
    /\ pc = "buildB"
    /\ Len(walked) < Len(orderB)
    /\ walked' = Append(walked, orderB[Len(walked) + 1])
    /\ graphB' = InsertFile(graphB, moduleName, orderB[Len(walked) + 1])
    /\ UNCHANGED <<pc, dependancyGraph, orderFixed>>

\* lines 148-151 on the second graph
BuildBFinish ==
    /\ pc = "buildB"
    /\ Len(walked) = Len(orderB)
    /\ graphB' = SortCompactGraph(graphB, compactClears)
    /\ pc' = "compared"
    /\ UNCHANGED <<walked, dependancyGraph, orderFixed>>

NextOrder ==
    \/ BuildAInsert
    \/ BuildAFinish
    \/ BuildBInsert
    \/ BuildBFinish

SpecOrder == InitOrder /\ [][NextOrder]_vars

-----------------------------------------------------------------------------
(* Vocabulary of the properties *)

\* the second walk has started: walked holds .go files
SourcePhase ==
    \/ pc \in {"walksrc", "compact", "render", "write", "dot", "done"}
    \/ diag \in {"failed to walk directory provided", "Failed to parse file",
                 "could not write graph.dot file", "dot -Tpdf"}

\* the .go files visited so far
Files == IF SourcePhase THEN walked ELSE <<>>

\* the lists have not been sorted and compacted yet
BeforeCompact ==
    \/ pc \in {"walksrc", "compact"}
    \/ diag \in {"failed to walk directory provided", "Failed to parse file"}

\* the directory segments of a relative file path
DirSegments(path) == SubSeq(path, 1, Len(path) - 1)

\* module root M path-joined with the directory of path: the segments of M
\* followed by those of the directory, "." when there is none at all
ExpectedPackage(M, path) ==
    LET segs == M \o DirSegments(path) IN IF segs = <<>> THEN <<".">> ELSE segs

ToSet(s) == { s[i] : i \in 1..Len(s) }

NoRepeats(s) == \A i, j \in 1..Len(s) : s[i] = s[j] => i = j

\* the import path a literal of a source file spells
Spelled(lit) == CHOOSE p \in ImportPaths : lit = <<"\"">> \o p \o <<"\"">>

\* the import paths the visited files of package P declare
Declared(P) ==
    { Spelled(Files[i].imports[j]) :
          <<i, j>> \in { ij \in (1..Len(Files)) \X (1..MaxImports + 1) :
                            /\ ExpectedPackage(moduleName, Files[ij[1]].path) = P
                            /\ ij[2] <= Len(Files[ij[1]].imports) } }

\* the packages the visited files belong to
Packages == { ExpectedPackage(moduleName, Files[i].path) : i \in 1..Len(Files) }

\* the imports of the files of one directory, in visiting order
RECURSIVE ImportsOfDir(_, _)
ImportsOfDir(files, dir) ==
    IF files = <<>> THEN <<>>
    ELSE (IF DirSegments(Head(files).path) = dir
          THEN [j \in 1..Len(Head(files).imports) |-> Spelled(Head(files).imports[j])]
          ELSE <<>>) \o ImportsOfDir(Tail(files), dir)

-----------------------------------------------------------------------------
(* Properties *)

\* C1: after the sort + compact pass and before rendering, every node's
\* dependency list holds each import path at most once, and the list of a
\* package is exactly the set of imports its files declare.
C1_DependenciesDeduplicated ==
    pc = "render" =>
        /\ \A k \in DOMAIN dependancyGraph : NoRepeats(dependancyGraph[k])
        /\ \A P \in Packages :
              P \in DOMAIN dependancyGraph /\ ToSet(dependancyGraph[P]) = Declared(P)

\* C2: in the graph handed to the renderer every package derived from a source
\* file is a key, and every entry of every dependency list is a key.
C2_NoDanglingEdge ==
    pc \in {"render", "write", "dot", "done"} =>
        /\ Packages \subseteq DOMAIN dependancyGraph
        /\ \A k \in DOMAIN dependancyGraph :
              ToSet(dependancyGraph[k]) \subseteq DOMAIN dependancyGraph

\* C3: the rendered graph holds exactly one edge d -> P for every import d a
\* file of package P declares, and no other edge.
C3_OneEdgePerDeclaredImport ==
    pc \in {"write", "dot", "done"} =>
        /\ \A P \in Packages : \A d \in Declared(P) :
              CopiesIn(<<Quote(d), Quote(P)>>, edges) = 1
        /\ \A e \in BagToSet(edges) :
              \E P \in Packages : \E d \in Declared(P) : e = <<Quote(d), Quote(P)>>

ScenarioFiles ==
    << [path |-> <<"main.go">>, parses |-> TRUE,
        imports |-> << <<"\"", "fmt", "\"">> >>],
       [path |-> <<"sub", "a.go">>, parses |-> TRUE,
        imports |-> << <<"\"", "root", "\"">>, <<"\"", "fmt", "\"">> >>] >>

\* C4: module root "root", main.go importing fmt and sub/a.go importing root
\* and fmt render as the nodes {root, root/sub, fmt} and the edges
\* {fmt -> root, fmt -> root/sub, root -> root/sub}.
C4_EndToEnd ==
    (pc \in {"write", "dot", "done"} /\ moduleName = <<"root">> /\ walked = ScenarioFiles) =>
        /\ nodes = { <<"\"", "root", "\"">>, <<"\"", "root", "sub", "\"">>, <<"\"", "fmt", "\"">> }
        /\ edges = SetToBag({ << <<"\"", "fmt", "\"">>, <<"\"", "root", "\"">> >>,
                              << <<"\"", "fmt", "\"">>, <<"\"", "root", "sub", "\"">> >>,
                              << <<"\"", "root", "\"">>, <<"\"", "root", "sub", "\"">> >> })

C4_ScenarioRendered ==
    pc = "done" /\ moduleName = <<"root">> /\ walked = ScenarioFiles /\ wroteDot /\ ranDotPdf

\* C5: no source file is processed, and so no package is derived, with an
\* empty module root: a tree without go.mod ends the run with an error first.
C5_ModuleRootOrFatal ==
    Files # <<>> => moduleName # <<>>

\* C6: once a .go file has failed to parse the run is over with that error:
\* nothing is rendered, graph.dot is not written and dot -Tpdf is not invoked.
C6_ParseErrorAborts ==
    (\E i \in 1..Len(Files) : ~Files[i].parses) =>
        /\ pc = "fatal"
        /\ diag = "Failed to parse file"
        /\ nodes = {}
        /\ edges = EmptyBag
        /\ ~wroteDot
        /\ ~ranDotPdf

C6_ParseErrorAfterInsertions ==
    /\ pc = "fatal"
    /\ diag = "Failed to parse file"
    /\ Len(walked) = 2
    /\ walked[1].parses /\ walked[1].imports # <<>>
    /\ ~walked[2].parses

\* os.Args[1] is present and does not begin with https://
BadPrefix ==
    arg # NoArg /\ ~(Len(arg) >= 3 /\ arg[1] = "https:" /\ arg[2] = "/" /\ arg[3] = "/")

\* C7: with a location argument that does not begin with https:// the run
\* ends before the key is read, the clone is called, a tree is walked, or
\* anything is written or rendered.
C7_BadPrefixRejected ==
    BadPrefix =>
        /\ pc \in {"start", "args", "convert", "fatal"}
        /\ pc = "fatal" => diag \in {"Graphviz is not installed",
                                     "Please provide valid https:// link to your github profile"}
        /\ ~keyOpened
        /\ ~cloneCalled
        /\ walked = <<>>
        /\ DOMAIN dependancyGraph = {}
        /\ ~wroteDot
        /\ ~ranDotPdf

C7_Rejected ==
    /\ BadPrefix
    /\ pc = "fatal"
    /\ diag = "Please provide valid https:// link to your github profile"

\* C8: every visited file is inserted under the module root path-joined with
\* its directory (the module root itself for a file at the tree root), so the
\* files of one directory share one key, whose list accumulates their imports.
C8_PackageIsDirectory ==
    BeforeCompact =>
        /\ \A i \in 1..Len(Files) :
              LET P == ExpectedPackage(moduleName, Files[i].path) IN
              /\ P \in DOMAIN dependancyGraph
              /\ dependancyGraph[P] = ImportsOfDir(Files, DirSegments(Files[i].path))
        /\ DOMAIN dependancyGraph = Packages \cup UNION { Declared(P) : P \in Packages }

C8_TwoFilesOneKey ==
    /\ pc = "compact"
    /\ moduleName = <<"root">>
    /\ Len(walked) = 2
    /\ walked[1].path = <<"sub", "main.go">>
    /\ walked[2].path = <<"sub", "a.go">>
    /\ walked[1].imports # <<>>
    /\ walked[2].imports # <<>>
    /\ Len(dependancyGraph[<<"root", "sub">>]) = Len(walked[1].imports) + Len(walked[2].imports)

\* C9: the same files under the same module root, visited in any two orders,
\* give the same keys and, after the sort + compact pass, the same list for
\* each key.
C9_OrderIndependent ==
    pc = "compared" =>
        /\ DOMAIN graphB = DOMAIN dependancyGraph
        /\ \A k \in DOMAIN dependancyGraph : graphB[k] = dependancyGraph[k]

C9_TwoOrdersCompared ==
    /\ pc = "compared"
    /\ orderB # orderA
    /\ \E k \in DOMAIN dependancyGraph : Len(dependancyGraph[k]) >= 2

\* C10 as stated: moduleName is assigned at most one time.  During the first
\* walk every entry of walked is a go.mod whose module line 96 has assigned.
C10_AssignedAtMostOnce ==
    pc = "walkmod" => Len(walked) <= 1

\* C10 as amended: every go.mod the first walk visits is assigned, the last
\* one standing; no assignment happens outside the first walk; and every
\* package of the run is derived from that one value.
C10_AssignedPerGoModBeforeSources ==
    /\ [](pc = "walkmod" /\ walked # <<>> => moduleName = walked[Len(walked)].module)
    /\ [][pc # "walkmod" => moduleName' = moduleName]_vars
    /\ [](Packages \subseteq DOMAIN dependancyGraph)

C10_TwoGoModsVisited ==
    /\ pc = "walkmod"
    /\ Len(walked) = 2
    /\ walked[1].module # walked[2].module
    /\ moduleName = walked[2].module

====
